---- MODULE Spec2Model ----
(***************************************************************************)
(* A model of two components of parity-common:                             *)
(*   - parity-crypto/src/publickey/secret_key.rs: the Secret scalar, its   *)
(*     in-place arithmetic over the secp256k1 group order, its formatting  *)
(*     and its construction from a hex string;                             *)
(*   - triehash/src/lib.rs: trie_root, build_trie, build_trie_trampoline.  *)
(*                                                                         *)
(* Scalars.  Secret.inner is 32 bytes, read big-endian as an integer in    *)
(* [0, 2^256); the curve order n is a prime just below 2^256.  The         *)
(* arithmetic part of the model keeps this shape at a width of ScalarBits  *)
(* bits: a scalar is an integer in [0, 2^ScalarBits) and N is the largest  *)
(* prime below 2^ScalarBits, so that zero, the valid scalars [1, N) and    *)
(* the scalars >= N that the curve library rejects all exist.  The         *)
(* formatting and hex parts work on the bytes themselves.                  *)
(***************************************************************************)
EXTENDS Integers, Sequences, FiniteSets, TLC

\* ---------------------------------------------------------------- bounds
ScalarBits == 5
MaxPow == 3

\* ------------------------------------------------------- the scalar field
RECURSIVE Pow2(_)
Pow2(e) == IF e = 0 THEN 1 ELSE 2 * Pow2(e - 1)

ScalarLimit == Pow2(ScalarBits)

Scalars == 0 .. (ScalarLimit - 1)

IsPrime(p) == p > 1 /\ \A d \in 2 .. (p - 1) : p % d # 0

\* The group order: a prime just below the scalar width.
N == CHOOSE p \in Scalars : IsPrime(p) /\ \A q \in (p + 1) .. (ScalarLimit - 1) : ~IsPrime(q)

\* key::ONE_KEY and super::MINUS_ONE_KEY (n - 1).
ONE_KEY == 1
MINUS_ONE_KEY == N - 1

\* ------------------------------------------------- the curve library
\* key::SecretKey::from_slice: a valid secret is non-zero and below n.
SecretKey_from_slice(x) ==
    IF x # 0 /\ x < N THEN [ok |-> TRUE, key |-> x] ELSE [ok |-> FALSE, key |-> 0]

\* SecretKey::add_assign(tweak): rejects a tweak >= n and a zero result.
add_assign(key, tweak) ==
    IF tweak >= N THEN [ok |-> FALSE, key |-> key]
    ELSE LET r == (key + tweak) % N
         IN  IF r = 0 THEN [ok |-> FALSE, key |-> key] ELSE [ok |-> TRUE, key |-> r]

\* SecretKey::mul_assign(tweak): rejects a tweak that is zero or >= n.
mul_assign(key, tweak) ==
    IF tweak >= N \/ tweak = 0 THEN [ok |-> FALSE, key |-> key]
    ELSE [ok |-> TRUE, key |-> (key * tweak) % N]

\* ------------------------------------------------------------ Secret
\* What an operation leaves behind: self's value, Ok or Err, and the curve-library
\* secrets (local variables of the call) that still hold a scalar at return.
Ok(v, live) == [val |-> v, ret |-> "ok", live |-> live]
Err(v, live) == [val |-> v, ret |-> "err", live |-> live]

zero == 0

is_zero(s) == s = 0

to_secp256k1_secret(s) == SecretKey_from_slice(s)

check_validity(s) == to_secp256k1_secret(s).ok

\* ZeroizeSecretKey(k).zeroize(), called on each of `names`: none of them holds a
\* scalar afterwards.  (The wrapper is Copy; the model takes the reading that the
\* overwrite reaches k itself, the one most favourable to the code.)
Zeroized(names) == {}

\* impl From<key::SecretKey> for Secret: copies the 32 bytes out and zeroizes key.
From_SecretKey(key) == key

Secret_add(self, other) ==
    IF is_zero(other) THEN Ok(self, {})
    ELSE IF is_zero(self) THEN Ok(other, {})
    ELSE LET ks == to_secp256k1_secret(self)
         IN  IF ~ks.ok THEN Err(self, {})
             ELSE LET os == to_secp256k1_secret(other)
                  IN  IF ~os.ok THEN Err(self, {"key_secret"})
                      ELSE LET r == add_assign(ks.key, os.key)
                           IN  IF ~r.ok THEN Err(self, {"key_secret", "other_secret"})
                               ELSE Ok(From_SecretKey(r.key),
                                       Zeroized({"key_secret", "other_secret"}))

Secret_neg(self) ==
    IF is_zero(self) THEN Ok(self, {})
    ELSE LET ks == to_secp256k1_secret(self)
         IN  IF ~ks.ok THEN Err(self, {})
             ELSE LET r == mul_assign(ks.key, MINUS_ONE_KEY)
                  IN  IF ~r.ok THEN Err(self, {"key_secret"})
                      ELSE Ok(From_SecretKey(r.key), Zeroized({"key_secret"}))

Secret_sub(self, other) ==
    IF is_zero(other) THEN Ok(self, {})
    ELSE IF is_zero(self) THEN Secret_neg(other)
    ELSE LET ks == to_secp256k1_secret(self)
         IN  IF ~ks.ok THEN Err(self, {})
             ELSE LET os == to_secp256k1_secret(other)
                  IN  IF ~os.ok THEN Err(self, {"key_secret"})
                      ELSE LET m == mul_assign(os.key, MINUS_ONE_KEY)
                           IN  IF ~m.ok THEN Err(self, {"key_secret", "other_secret"})
                               ELSE LET r == add_assign(ks.key, m.key)
                                    IN  IF ~r.ok
                                        THEN Err(self, {"key_secret", "other_secret"})
                                        ELSE Ok(From_SecretKey(r.key),
                                                Zeroized({"key_secret", "other_secret"}))

\* dec whose zero arm wraps the bytes around (all 0xff) instead of giving n - 1.
Secret_dec_wrapping(self) ==
    IF is_zero(self) THEN Ok(ScalarLimit - 1, {})
    ELSE LET ks == to_secp256k1_secret(self)
         IN  IF ~ks.ok THEN Err(self, {})
             ELSE LET r == add_assign(ks.key, MINUS_ONE_KEY)
                  IN  IF ~r.ok THEN Err(self, {"key_secret"})
                      ELSE Ok(From_SecretKey(r.key), Zeroized({"key_secret"}))

Secret_dec(self) ==
    IF is_zero(self) THEN Ok(MINUS_ONE_KEY, {})
    ELSE LET ks == to_secp256k1_secret(self)
         IN  IF ~ks.ok THEN Err(self, {})
             ELSE LET r == add_assign(ks.key, MINUS_ONE_KEY)
                  IN  IF ~r.ok THEN Err(self, {"key_secret"})
                      ELSE Ok(From_SecretKey(r.key), Zeroized({"key_secret"}))

Secret_mul(self, other) ==
    IF is_zero(self) THEN Ok(self, {})
    ELSE IF is_zero(other) THEN Ok(zero, {})
    ELSE LET ks == to_secp256k1_secret(self)
         IN  IF ~ks.ok THEN Err(self, {})
             ELSE LET os == to_secp256k1_secret(other)
                  IN  IF ~os.ok THEN Err(self, {"key_secret"})
                      ELSE LET r == mul_assign(ks.key, os.key)
                           IN  IF ~r.ok THEN Err(self, {"key_secret", "other_secret"})
                               ELSE Ok(From_SecretKey(r.key),
                                       Zeroized({"key_secret", "other_secret"}))

\* pow_loop multiplying by the running product instead of the snapshot c.
RECURSIVE pow_loop_running(_, _, _, _, _)
pow_loop_running(self, c, i, pow, live) ==
    IF i >= pow THEN Ok(self, live)
    ELSE LET r == Secret_mul(self, self)
         IN  IF r.ret = "err" THEN Err(r.val, live \cup r.live)
             ELSE pow_loop_running(r.val, c, i + 1, pow, live \cup r.live)

\* The loop of pow: `for _ in 1..pow { self.mul(&c)?; }`, i running from 1.
RECURSIVE pow_loop(_, _, _, _, _)
pow_loop(self, c, i, pow, live) ==
    IF i >= pow THEN Ok(self, live)
    ELSE LET r == Secret_mul(self, c)
         IN  IF r.ret = "err" THEN Err(r.val, live \cup r.live)
             ELSE pow_loop(r.val, c, i + 1, pow, live \cup r.live)

Secret_pow(self, pow) ==
    IF is_zero(self) THEN Ok(self, {})
    ELSE IF pow = 0 THEN Ok(ONE_KEY, {})
    ELSE IF pow = 1 THEN Ok(self, {})
    ELSE pow_loop(self, self, 1, pow, {})

\* ------------------------------------------------------- formatting
\* SECP256K1_SECRET_KEY_SIZE: the length of Secret.inner (an H256) in bytes.
SECRET_KEY_SIZE == 32

HexDigits == <<"0", "1", "2", "3", "4", "5", "6", "7", "8", "9", "a", "b", "c", "d", "e", "f">>

\* "{:x}" of a u8: lowercase hex without padding.
LowerHexU8(b) ==
    IF b < 16 THEN <<HexDigits[b + 1]>>
    ELSE <<HexDigits[(b \div 16) + 1], HexDigits[(b % 16) + 1]>>

\* "{:02x}" of a u8: lowercase hex padded to two digits.
LowerHex02U8(b) == <<HexDigits[(b \div 16) + 1], HexDigits[(b % 16) + 1]>>

RECURSIVE H256_hex(_, _)
H256_hex(h, i) ==
    IF i > Len(h) THEN <<>> ELSE LowerHex02U8(h[i]) \o H256_hex(h, i + 1)

\* impl LowerHex for H256 (fixed-hash): every byte as two digits; "0x" first when
\* the alternate flag is set.
H256_LowerHex(h, alternate) ==
    (IF alternate THEN <<"0", "x">> ELSE <<>>) \o H256_hex(h, 1)

\* impl Debug for H256 (fixed-hash): write!(f, "{:#x}", self).
H256_Debug(h) == H256_LowerHex(h, TRUE)

\* impl fmt::LowerHex for Secret / impl fmt::Debug for Secret: self.inner.fmt(fmt),
\* the formatting of the H256 under the trait being implemented.
Secret_LowerHex(inner) == H256_LowerHex(inner, FALSE)

Secret_Debug(inner) == H256_Debug(inner)

\* impl fmt::Display for Secret; inner[i] is the source's inner[i - 1].
Secret_Display(inner) ==
    <<"S", "e", "c", "r", "e", "t", ":", " ", "0", "x">>
        \o LowerHexU8(inner[1]) \o LowerHexU8(inner[2]) \o <<".", ".">>
        \o LowerHexU8(inner[31]) \o LowerHexU8(inner[32])

to_hex(inner) == Secret_LowerHex(inner)

\* ------------------------------------------------------------ from hex
UpperDigits == <<"A", "B", "C", "D", "E", "F">>

HexValue(c) ==
    IF \E i \in 1 .. 16 : HexDigits[i] = c
    THEN (CHOOSE i \in 1 .. 16 : HexDigits[i] = c) - 1
    ELSE IF \E i \in 1 .. 6 : UpperDigits[i] = c
    THEN (CHOOSE i \in 1 .. 6 : UpperDigits[i] = c) + 9
    ELSE -1

RECURSIVE from_hex(_, _)
\* rustc_hex's from_hex from character i on: pairs of hex digits to bytes.
from_hex(s, i) ==
    IF i > Len(s) THEN [ok |-> TRUE, bytes |-> <<>>, err |-> "none"]
    ELSE IF HexValue(s[i]) < 0 THEN [ok |-> FALSE, bytes |-> <<>>, err |-> "InvalidHexCharacter"]
    ELSE IF i = Len(s) THEN [ok |-> FALSE, bytes |-> <<>>, err |-> "InvalidHexLength"]
    ELSE IF HexValue(s[i + 1]) < 0
    THEN [ok |-> FALSE, bytes |-> <<>>, err |-> "InvalidHexCharacter"]
    ELSE LET rest == from_hex(s, i + 2)
         IN  IF ~rest.ok THEN rest
             ELSE [ok |-> TRUE,
                   bytes |-> <<16 * HexValue(s[i]) + HexValue(s[i + 1])>> \o rest.bytes,
                   err |-> "none"]

\* H256::from_str (fixed-hash): the string must decode to exactly 32 bytes.
H256_from_str(s) ==
    LET d == from_hex(s, 1)
    IN  IF ~d.ok THEN d
        ELSE IF Len(d.bytes) # SECRET_KEY_SIZE
        THEN [ok |-> FALSE, bytes |-> <<>>, err |-> "InvalidHexLength"]
        ELSE d

H256_zero == [i \in 1 .. SECRET_KEY_SIZE |-> 0]

\* copy_from_str returning a zero Secret where the parser failed.
copy_from_str_lenient(s) ==
    LET h == H256_from_str(s)
    IN  IF ~h.ok THEN [ok |-> TRUE, inner |-> H256_zero, variant |-> "none", msg |-> "none"]
        ELSE [ok |-> TRUE, inner |-> h.bytes, variant |-> "none", msg |-> "none"]

\* Secret::copy_from_str: a parser error becomes Error::Custom(format!("{:?}"));
\* otherwise the decoded bytes are swapped into a zero Secret.
copy_from_str(s) ==
    LET h == H256_from_str(s)
    IN  IF ~h.ok THEN [ok |-> FALSE, inner |-> <<>>, variant |-> "Custom", msg |-> h.err]
        ELSE [ok |-> TRUE, inner |-> h.bytes, variant |-> "none", msg |-> "none"]

\* ------------------------------------------------------------ triehash
\* The stream S of a build_trie call, as the sequence of TrieStream operations applied
\* to it; a substream is the sequence of operations applied to the child stream.
Op(name, path, value, sub) == [op |-> name, path |-> path, value |-> value, sub |-> sub]

append_empty_data == Op("empty", <<>>, <<>>, <<>>)

append_leaf(path, value) == Op("leaf", path, value, <<>>)

append_extension(path) == Op("extension", path, <<>>, <<>>)

begin_branch == Op("branch", <<>>, <<>>, <<>>)

append_value(value) == Op("value", <<>>, value, <<>>)

append_substream(sub) == Op("substream", <<>>, <<>>, sub)

\* H::hash of stream.out(): a digest that tells different streams apart.
H_hash(out) == [digest |-> out]

Min(a, b) == IF a < b THEN a ELSE b

\* Ord of byte strings: lexicographic, a proper prefix first.
RECURSIVE LexLess(_, _)
LexLess(a, b) ==
    IF Len(b) = 0 THEN FALSE
    ELSE IF Len(a) = 0 THEN TRUE
    ELSE IF a[1] # b[1] THEN a[1] < b[1]
    ELSE LexLess(Tail(a), Tail(b))

Entry(k, v) == [key |-> k, value |-> v]

\* BTreeMap::insert keeping the value already there for a key present.
btree_insert_keep_first(map, k, v) ==
    IF \E i \in 1 .. Len(map) : map[i].key = k THEN map
    ELSE LET pos == Cardinality({i \in 1 .. Len(map) : LexLess(map[i].key, k)})
         IN  SubSeq(map, 1, pos) \o <<Entry(k, v)>> \o SubSeq(map, pos + 1, Len(map))

\* BTreeMap::insert putting a new key last instead of in key order.
btree_insert_append(map, k, v) ==
    IF \E i \in 1 .. Len(map) : map[i].key = k
    THEN [i \in 1 .. Len(map) |-> IF map[i].key = k THEN Entry(k, v) ELSE map[i]]
    ELSE Append(map, Entry(k, v))

\* BTreeMap::insert, the map held as its entries in ascending key order: the value
\* of a key already present is replaced, a new key goes to its place in the order.
btree_insert(map, k, v) ==
    IF \E i \in 1 .. Len(map) : map[i].key = k
    THEN [i \in 1 .. Len(map) |-> IF map[i].key = k THEN Entry(k, v) ELSE map[i]]
    ELSE LET pos == Cardinality({i \in 1 .. Len(map) : LexLess(map[i].key, k)})
         IN  SubSeq(map, 1, pos) \o <<Entry(k, v)>> \o SubSeq(map, pos + 1, Len(map))

\* input.into_iter().collect::<BTreeMap<_, _>>(): the pairs inserted in input order.
RECURSIVE collect(_, _)
collect(input, map) ==
    IF input = <<>> THEN map
    ELSE collect(Tail(input), btree_insert(map, input[1].key, input[1].value))

\* The nibbles of one key: b >> 4, then b & 0x0F, for each byte.
RECURSIVE key_nibbles(_)
key_nibbles(k) ==
    IF k = <<>> THEN <<>>
    ELSE <<k[1] \div 16, k[1] % 16>> \o key_nibbles(Tail(k))

\* The nibble buffer of all keys in map order.
RECURSIVE all_nibbles(_)
all_nibbles(map) ==
    IF map = <<>> THEN <<>> ELSE key_nibbles(map[1].key) \o all_nibbles(Tail(map))

\* lens: 0, then the buffer's length after each key.
RECURSIVE key_lens(_, _)
key_lens(map, sofar) ==
    IF map = <<>> THEN <<sofar>>
    ELSE <<sofar>> \o key_lens(Tail(map), sofar + 2 * Len(map[1].key))

\* The working input: (&nibbles[w[0]..w[1]], v) for each entry and window of lens.
nibble_input(map) ==
    LET nibbles == all_nibbles(map)
        lens == key_lens(map, 0)
    IN  [i \in 1 .. Len(map) |->
            Entry(SubSeq(nibbles, lens[i] + 1, lens[i + 1]), map[i].value)]

\* shared_prefix_len that stops only at the end of the shorter key.
shared_prefix_len_to_end(first, second) == Min(Len(first), Len(second))

\* shared_prefix_len: the first position where the two differ, else the shorter length.
shared_prefix_len(first, second) ==
    LET m == Min(Len(first), Len(second))
        diff == {i \in 1 .. m : first[i] # second[i]}
    IN  IF diff = {} THEN m ELSE (CHOOSE i \in diff : \A j \in diff : i <= j) - 1

\* The fold over input.iter().skip(1), from entry i (1-based) on.
RECURSIVE shared_fold(_, _, _, _)
shared_fold(input, key, i, acc) ==
    IF i > Len(input) THEN acc
    ELSE shared_fold(input, key, i + 1, Min(shared_prefix_len(key, input[i].key), acc))

\* `for _ in i..16 { stream.append_empty_data(); }` one slot short.
fill_empty_short(i) == [j \in 1 .. (16 - i - 1) |-> append_empty_data]

\* `for _ in i..16 { stream.append_empty_data(); }`
fill_empty(i) == [j \in 1 .. (16 - i) |-> append_empty_data]

\* `let mut begin = ...` without the step over a first key that ends at cursor.
first_begin_zero(cursor, key) == 0

\* `let mut begin = { if cursor == key.len() {1} else {0} };`
first_begin(cursor, key) == IF cursor = Len(key) THEN 1 ELSE 0

\* take_while(|(k, _)| k.as_ref()[cursor] == i).count() over input[begin..]; the read
\* k[cursor] panics when the key has no nibble at cursor.
RECURSIVE take_while_count(_, _, _, _)
take_while_count(input, begin, cursor, i) ==
    IF begin >= Len(input) THEN [count |-> 0, panic |-> FALSE]
    ELSE LET k == input[begin + 1].key
         IN  IF cursor >= Len(k) THEN [count |-> 0, panic |-> TRUE]
             ELSE IF k[cursor + 1] # i THEN [count |-> 0, panic |-> FALSE]
             ELSE LET rest == take_while_count(input, begin + 1, cursor, i)
                  IN  [count |-> 1 + rest.count, panic |-> rest.panic]

\* What one build_trie call did: the operations it applied to its stream (out), and
\* a record of the call (its input and cursor, which node it made, for a branch the
\* first begin, each slot's (i, begin, count) and the last begin, and the calls made
\* from it through build_trie_trampoline); panic: an out-of-bounds read happened.
Built(out, kind, input, cursor, begin0, scan, endBegin, children, panic) ==
    [out |-> out,
     call |-> [kind |-> kind, input |-> input, cursor |-> cursor, out |-> out,
               begin0 |-> begin0, scan |-> scan, endBegin |-> endBegin,
               children |-> children],
     panic |-> panic]

\* The loop `for i in 0..16` of the branch case as far as it reads the input: for
\* each slot i reached with begin < input.len(), begin and the count of successive
\* entries with nibble i at cursor (`begin += shared_nibble_count` follows).  The loop
\* leaves at slot 16, or breaks at the first slot that finds begin >= input.len().
RECURSIVE branch_scan(_, _, _, _)
branch_scan(input, cursor, i, begin) ==
    IF i >= 16 \/ begin >= Len(input) THEN <<>>
    ELSE LET tw == take_while_count(input, begin, cursor, i)
             slot == [i |-> i, begin |-> begin, count |-> tw.count, panic |-> tw.panic]
         IN  IF tw.panic THEN <<slot>>
             ELSE <<slot>> \o branch_scan(input, cursor, i + 1, begin + tw.count)

RECURSIVE build_trie(_, _)

\* build_trie_trampoline: build_trie on a new substream, then append_substream.
build_trie_trampoline(input, cursor) ==
    LET b == build_trie(input, cursor)
    IN  [out |-> <<append_substream(b.out)>>, call |-> b.call, panic |-> b.panic]

\* A slot that recurses at the caller's cursor instead of cursor + 1.
branch_slot_same_cursor(input, cursor, slot) ==
    IF slot.panic \/ slot.count = 0
    THEN [out |-> <<append_empty_data>>, call |-> <<>>, panic |-> slot.panic]
    ELSE build_trie_trampoline(SubSeq(input, slot.begin + 1, slot.begin + slot.count),
                               cursor)

\* The `match shared_nibble_count` of one slot: append_empty_data for a count of 0,
\* else the recursion on input[begin..(begin + shared_nibble_count)] at cursor + 1.
branch_slot(input, cursor, slot) ==
    IF slot.panic \/ slot.count = 0
    THEN [out |-> <<append_empty_data>>, call |-> <<>>, panic |-> slot.panic]
    ELSE build_trie_trampoline(SubSeq(input, slot.begin + 1, slot.begin + slot.count),
                               cursor + 1)

build_trie(input, cursor) ==
    IF Len(input) = 0
    THEN Built(<<append_empty_data>>, "empty", input, cursor, 0, <<>>, 0, <<>>, FALSE)
    ELSE IF Len(input) = 1
    THEN IF cursor > Len(input[1].key)
         THEN Built(<<>>, "leaf", input, cursor, 0, <<>>, 0, <<>>, TRUE)
         ELSE Built(<<append_leaf(SubSeq(input[1].key, cursor + 1, Len(input[1].key)),
                                  input[1].value)>>,
                    "leaf", input, cursor, 0, <<>>, 0, <<>>, FALSE)
    ELSE LET key == input[1].key
             value == input[1].value
             shared_nibble_count == shared_fold(input, key, 2, Len(key))
         IN  IF shared_nibble_count > cursor
             THEN LET child == build_trie_trampoline(input, shared_nibble_count)
                  IN  Built(<<append_extension(SubSeq(key, cursor + 1, shared_nibble_count))>>
                                \o child.out,
                            "extension", input, cursor, 0, <<>>, 0, <<child.call>>,
                            child.panic)
             ELSE LET begin == first_begin(cursor, key)
                      scan == branch_scan(input, cursor, 0, begin)
                      slots == [m \in 1 .. Len(scan) |-> branch_slot(input, cursor, scan[m])]
                                   \o <<>>
                      handed == {m \in 1 .. Len(scan) : scan[m].count > 0}
                      nth(j) == CHOOSE m \in handed : Cardinality({h \in handed : h <= m}) = j
                      endBegin == IF scan = <<>> THEN begin
                                  ELSE scan[Len(scan)].begin + scan[Len(scan)].count
                      last_slot == IF cursor = Len(key) THEN append_value(value)
                                   ELSE append_empty_data
                  IN  Built(<<begin_branch>>
                                \o [m \in 1 .. Len(slots) |-> slots[m].out[1]]
                                \o (IF Len(scan) < 16 THEN fill_empty(Len(scan)) ELSE <<>>)
                                \o <<last_slot>>,
                            "branch", input, cursor, begin,
                            [m \in 1 .. Len(scan) |->
                                [i |-> scan[m].i, begin |-> scan[m].begin,
                                 count |-> scan[m].count]],
                            endBegin,
                            [j \in 1 .. Cardinality(handed) |-> slots[nth(j)].call],
                            \E m \in 1 .. Len(slots) : slots[m].panic)

\* trie_root: collect into a BTreeMap, expand the keys to nibbles, build, hash.
trie_root(input) ==
    LET map == collect(input, <<>>)
        b == build_trie(nibble_input(map), 0)
    IN  [root |-> H_hash(b.out), call |-> b.call, panic |-> b.panic]

\* ------------------------------------------------------------ state
\* secrets: the two Secret values in play; last: the last call made on one of them
\* (its receiver, the receiver's and the argument's values at entry, and its outcome).
\* fx, fy: the bytes of two Secrets being formatted; shown: their last formatting.
\* hexIn: a string handed to copy_from_str; parsed: what it returned.
\* pairsA, pairsB: two inputs of trie_root; roots: what trie_root made of each.
VARIABLES secrets, last, fx, fy, shown, hexIn, parsed, pairsA, pairsB, roots

secretVars == <<secrets, last>>

fmtVars == <<fx, fy, shown>>

hexVars == <<hexIn, parsed>>

trieVars == <<pairsA, pairsB, roots>>

vars == <<secrets, last, fx, fy, shown, hexIn, parsed, pairsA, pairsB, roots>>

Names == {"a", "b"}

Other(t) == IF t = "a" THEN "b" ELSE "a"

NoCall == [op |-> "none", self |-> "a", pre |-> 0, arg |-> 0, pow |-> 0,
           ret |-> "ok", live |-> {}]

NotShown == [done |-> FALSE, debug |-> <<>>, display |-> <<>>]

NotParsed == [done |-> FALSE, ok |-> FALSE, inner |-> <<>>, variant |-> "none", msg |-> "none"]

SecretIdle == secrets = [t \in Names |-> 0] /\ last = NoCall

FmtIdle == fx = H256_zero /\ fy = H256_zero /\ shown = NotShown

HexIdle == hexIn = <<>> /\ parsed = NotParsed

NotBuilt == [done |-> FALSE]

TrieIdle == pairsA = <<>> /\ pairsB = <<>> /\ roots = NotBuilt

Call(op, t, k, r) ==
    /\ secrets' = [secrets EXCEPT ![t] = r.val]
    /\ last' = [op |-> op, self |-> t, pre |-> secrets[t], arg |-> secrets[Other(t)],
                pow |-> k, ret |-> r.ret, live |-> r.live]
    /\ UNCHANGED <<fmtVars, hexVars, trieVars>>

\* copy_from_slice accepts any 32 bytes: a Secret may start at any scalar.
Init ==
    /\ secrets \in [Names -> Scalars]
    /\ last = NoCall
    /\ FmtIdle
    /\ HexIdle
    /\ TrieIdle

add(t) == Call("add", t, 0, Secret_add(secrets[t], secrets[Other(t)]))

sub(t) == Call("sub", t, 0, Secret_sub(secrets[t], secrets[Other(t)]))

mul(t) == Call("mul", t, 0, Secret_mul(secrets[t], secrets[Other(t)]))

neg(t) == Call("neg", t, 0, Secret_neg(secrets[t]))

dec(t) == Call("dec", t, 0, Secret_dec(secrets[t]))

pow(t) == \E k \in 0 .. MaxPow : Call("pow", t, k, Secret_pow(secrets[t], k))

\* Clone::clone_from: copies the other Secret's bytes.
clone_from(t) == Call("clone_from", t, 0, Ok(secrets[Other(t)], {}))

Next ==
    \E t \in Names :
        \/ add(t)
        \/ sub(t)
        \/ mul(t)
        \/ neg(t)
        \/ dec(t)
        \/ pow(t)
        \/ clone_from(t)

Spec == Init /\ [][Next]_vars

\* Secret::import_key: a Secret of the bytes, if the curve library accepts them.
import_key(x) ==
    LET secret == SecretKey_from_slice(x)
    IN  IF secret.ok THEN [ok |-> TRUE, val |-> From_SecretKey(secret.key)]
        ELSE [ok |-> FALSE, val |-> zero]

\* Every Secret in play made by zero() or by a successful import_key.
InitRange ==
    /\ secrets \in [Names -> {zero} \cup {import_key(x).val : x \in {y \in Scalars : import_key(y).ok}}]
    /\ last = NoCall
    /\ FmtIdle
    /\ HexIdle
    /\ TrieIdle

\* The arithmetic calls alone.
NextRange ==
    \E t \in Names :
        \/ add(t)
        \/ sub(t)
        \/ mul(t)
        \/ neg(t)
        \/ dec(t)
        \/ pow(t)

SpecRange == InitRange /\ [][NextRange]_vars

\* ------------------------------------------- formatting: specification
\* The byte values and the strings the formatting and parsing are run on.
FmtByteCount == 3
HexSlack == 2

ByteSamples == <<0, 10, 171, 255, 16, 1>>

FmtBytes == {ByteSamples[i] : i \in 1 .. FmtByteCount}

\* 32 bytes equal to f, but for the byte at position p, which is v.
FmtInputs ==
    {[i \in 1 .. SECRET_KEY_SIZE |-> IF i = p THEN v ELSE f] :
        f \in FmtBytes, v \in FmtBytes, p \in 1 .. SECRET_KEY_SIZE}

InitFmt ==
    /\ fx \in FmtInputs
    /\ fy \in FmtInputs
    /\ shown = NotShown
    /\ SecretIdle
    /\ HexIdle
    /\ TrieIdle

\* format!("{:?}", s) and format!("{}", s) of both Secrets.
format ==
    /\ ~shown.done
    /\ shown' = [done |-> TRUE,
                 debug |-> <<Secret_Debug(fx), Secret_Debug(fy)>>,
                 display |-> <<Secret_Display(fx), Secret_Display(fy)>>]
    /\ UNCHANGED <<fx, fy, secretVars, hexVars, trieVars>>

NextFmt == format

SpecFmt == InitFmt /\ [][NextFmt]_vars

\* ------------------------------------------- from hex: specification
HexChars == {"0", "a", "F", "7"}

OddChars == {"g", "1", "x"}

HexLens == (0 .. HexSlack) \cup ((2 * SECRET_KEY_SIZE - HexSlack) .. (2 * SECRET_KEY_SIZE + HexSlack))

\* Strings of one repeated hex digit, with at most one other character put in.
HexInputs ==
    {[i \in 1 .. l |-> IF i = p THEN d ELSE c] :
        c \in HexChars, d \in HexChars \cup OddChars, l \in HexLens,
        p \in 0 .. (2 * SECRET_KEY_SIZE + HexSlack)}

InitHex ==
    /\ hexIn \in HexInputs
    /\ parsed = NotParsed
    /\ SecretIdle
    /\ FmtIdle
    /\ TrieIdle

parse ==
    /\ ~parsed.done
    /\ LET r == copy_from_str(hexIn)
       IN  parsed' = [done |-> TRUE, ok |-> r.ok, inner |-> r.inner,
                      variant |-> r.variant, msg |-> r.msg]
    /\ UNCHANGED <<hexIn, secretVars, fmtVars, trieVars>>

NextHex == parse

SpecHex == InitHex /\ [][NextHex]_vars

\* ------------------------------------------- trie_root: specifications
RootMaxPairs == 3
TrieMaxKeys == 3
TrieMaxKeyLen == 2

\* Keys and values of the inputs compared with each other (SpecRoot).
RootKeys == {<<>>, <<0>>, <<1>>}

RootValues == {<<1>>, <<2>>}

RootPairs == {Entry(k, v) : k \in RootKeys, v \in RootValues}

RootInputs == UNION {[1 .. n -> RootPairs] : n \in 0 .. RootMaxPairs}

\* The mapping an input induces: each key with the value of its last occurrence.
LastMap(input) ==
    {input[i] : i \in {j \in 1 .. Len(input) :
                          \A l \in (j + 1) .. Len(input) : input[l].key # input[j].key}}

Reorderings(input) ==
    {[i \in 1 .. Len(input) |-> input[f[i]]] :
        f \in {g \in [1 .. Len(input) -> 1 .. Len(input)] :
                  \A x, y \in 1 .. Len(input) : g[x] = g[y] => x = y}}

\* Two inputs that induce the same mapping, or one input and a permutation of it.
InitRoot ==
    /\ \/ \E m \in {LastMap(i) : i \in RootInputs} :
              LET same == {i \in RootInputs : LastMap(i) = m}
              IN  pairsA \in same /\ pairsB \in same
       \/ /\ pairsA \in RootInputs
          /\ pairsB \in Reorderings(pairsA)
    /\ roots = NotBuilt
    /\ SecretIdle
    /\ FmtIdle
    /\ HexIdle

\* trie_root called on each of the two inputs.
trie_roots ==
    /\ ~roots.done
    /\ roots' = [done |-> TRUE, a |-> trie_root(pairsA), b |-> trie_root(pairsB)]
    /\ UNCHANGED <<pairsA, pairsB, secretVars, fmtVars, hexVars>>

NextRoot == trie_roots

SpecRoot == InitRoot /\ [][NextRoot]_vars

\* Keys of the inputs whose build is looked into (SpecTrie): the byte strings over
\* TrieByteSet up to TrieMaxKeyLen bytes; nibble 15 makes the slot loop run to its end.
TrieByteSet == {0, 1, 240}

TrieKeys == UNION {[1 .. n -> TrieByteSet] : n \in 0 .. TrieMaxKeyLen}

\* The keys of a set from the greatest down, each with itself as its value.
RECURSIVE descending(_)
descending(keys) ==
    IF keys = {} THEN <<>>
    ELSE LET top == CHOOSE k \in keys : \A o \in keys : ~LexLess(k, o)
         IN  <<Entry(top, top)>> \o descending(keys \ {top})

\* The sets of at most n keys.
RECURSIVE KeySets(_)
KeySets(n) ==
    IF n = 0 THEN {{}}
    ELSE LET smaller == KeySets(n - 1)
         IN  smaller \cup {s \cup {k} : s \in smaller, k \in TrieKeys}

InitTrie ==
    /\ \E keys \in KeySets(TrieMaxKeys) : pairsA = descending(keys)
    /\ pairsB = <<>>
    /\ roots = NotBuilt
    /\ SecretIdle
    /\ FmtIdle
    /\ HexIdle

SpecTrie == InitTrie /\ [][NextRoot]_vars

\* ================================================================ claims
ArithOps == {"add", "sub", "mul", "neg", "dec", "pow"}

\* ---- C1 (checked under Spec)
\* C1: whenever add, sub, mul, neg, dec or pow returns an error, self holds
\* exactly the value it held before the call.
C1_ErrorLeavesSelfUntouched ==
    (last.op \in ArithOps /\ last.ret = "err") => secrets[last.self] = last.pre

\* ---- C2 (checked under Spec)
\* C2: for every valid non-zero a, with b what neg() makes of a copy of a,
\* a.add(b) returns ok and leaves a equal to the zero scalar.
C2_AddInverseIsZero ==
    (/\ last.op = "add"
     /\ check_validity(last.pre)
     /\ Secret_neg(last.pre).ret = "ok"
     /\ last.arg = Secret_neg(last.pre).val)
        => (last.ret = "ok" /\ secrets[last.self] = zero)

\* ---- C4 (checked under Spec)
\* C4: whenever add, sub, mul, neg, dec or pow returns, on every path, no
\* curve-library secret created during the call still holds a scalar.
C4_AllCurveSecretsZeroized ==
    last.op \in ArithOps => last.live = {}

\* ---- C6 (checked under Spec)
RECURSIVE ModExp(_, _)
ModExp(a, k) == IF k = 0 THEN 1 ELSE (a * ModExp(a, k - 1)) % N

\* C6: for a valid non-zero a, a.pow(k) returns ok with 1 when k = 0, a when
\* k = 1 and a times pow(a, k - 1) modulo n when k >= 2; a zero secret stays
\* zero, with ok, for every k.
C6_PowIsModExp ==
    last.op = "pow" =>
        /\ is_zero(last.pre) => (last.ret = "ok" /\ secrets[last.self] = zero)
        /\ check_validity(last.pre) =>
               (last.ret = "ok" /\ secrets[last.self] = ModExp(last.pre, last.pow))

\* pow(3) of the scalar 2 has returned 8, after two multiplications.
C6_Witness ==
    /\ last.op = "pow"
    /\ last.pow = 3
    /\ last.pre = 2
    /\ last.ret = "ok"
    /\ secrets[last.self] = 8

\* ---- C3 (checked under SpecFmt)
\* The source's inner[0], inner[1], inner[30], inner[31].
ShownBytes == {1, 2, 31, 32}

\* C3: two Secrets that agree on bytes 0, 1, 30 and 31 have the same Debug
\* output and the same Display output.
C3_FormatsDependOnFourBytes ==
    (shown.done /\ \A i \in ShownBytes : fx[i] = fy[i]) =>
        (shown.debug[1] = shown.debug[2] /\ shown.display[1] = shown.display[2])

\* ---- C5 (checked under SpecHex)
\* The string is the hex form of exactly 32 bytes.
Decodes32(s) ==
    /\ Len(s) = 2 * SECRET_KEY_SIZE
    /\ \A i \in 1 .. Len(s) : HexValue(s[i]) >= 0

\* C5 as stated: copy_from_str succeeds exactly when the string decodes to 32
\* bytes, and fails with InvalidHex for every other string.
C5_FailsWithInvalidHex ==
    parsed.done =>
        /\ parsed.ok <=> Decodes32(hexIn)
        /\ ~parsed.ok => parsed.variant = "InvalidHex"

\* C5 amended: copy_from_str succeeds exactly when the string decodes to 32
\* bytes, the Secret then holding those bytes, and fails with Error::Custom
\* (carrying the parser's error) for every other string.
C5_FailsWithCustom ==
    parsed.done =>
        /\ parsed.ok <=> Decodes32(hexIn)
        /\ parsed.ok =>
               /\ Len(parsed.inner) = SECRET_KEY_SIZE
               /\ \A i \in 1 .. SECRET_KEY_SIZE :
                      parsed.inner[i] = 16 * HexValue(hexIn[2 * i - 1]) + HexValue(hexIn[2 * i])
        /\ ~parsed.ok =>
               (parsed.variant = "Custom"
                    /\ parsed.msg \in {"InvalidHexCharacter", "InvalidHexLength"})

\* A string of 63 hex digits has been refused.
C5_Witness ==
    /\ parsed.done
    /\ Len(hexIn) = 2 * SECRET_KEY_SIZE - 1
    /\ \A i \in 1 .. Len(hexIn) : HexValue(hexIn[i]) >= 0
    /\ ~parsed.ok
    /\ parsed.variant = "Custom"

\* ---- C7 (checked under SpecRoot)
IsPermutation(a, b) == b \in Reorderings(a)

\* Every key that occurs more than once occurs with one value.
OneValuePerKey(input) ==
    \A i, j \in 1 .. Len(input) : input[i].key = input[j].key => input[i].value = input[j].value

\* C7 as stated: every permutation of an input, also one in which a key occurs
\* more than once with different values, produces the same root.
C7_PermutationSameRoot ==
    (roots.done /\ IsPermutation(pairsA, pairsB)) => roots.a.root = roots.b.root

\* C7 amended: every permutation of an input in which each repeated key carries
\* the same value at all its occurrences produces the same root.
C7_PermutationSameRootOneValue ==
    (roots.done /\ IsPermutation(pairsA, pairsB) /\ OneValuePerKey(pairsA))
        => roots.a.root = roots.b.root

\* Three pairs with three keys and the same pairs in another order gave one root.
C7_Witness ==
    /\ roots.done
    /\ Len(pairsA) = 3
    /\ Cardinality({pairsA[i].key : i \in 1 .. 3}) = 3
    /\ IsPermutation(pairsA, pairsB)
    /\ pairsA # pairsB
    /\ roots.a.root = roots.b.root

\* ---- C8 (checked under SpecRoot)
\* C8: two inputs that induce the same mapping from each key to the value of
\* its last occurrence produce the same stream operations and the same root.
C8_LastWins ==
    (roots.done /\ LastMap(pairsA) = LastMap(pairsB)) => roots.a = roots.b

\* An input with a key given twice, with two values, and a shorter input
\* without the earlier value gave one root.
C8_Witness ==
    /\ roots.done
    /\ Len(pairsA) = 3
    /\ Len(pairsB) = 2
    /\ pairsA[1].key = pairsA[3].key
    /\ pairsA[1].value # pairsA[3].value
    /\ LastMap(pairsA) = LastMap(pairsB)
    /\ roots.a.root = roots.b.root

\* ---- C9 (checked under SpecTrie)
\* Every build_trie call of the tree of calls under c.
RECURSIVE CallsBelow(_)
CallsBelow(c) == {c} \cup UNION {CallsBelow(c.children[i]) : i \in 1 .. Len(c.children)}

BranchCalls(r) == {c \in CallsBelow(r.call) : c.kind = "branch"}

\* The entries (1-based) a slot of the scan handed to its child.
Run(slot) == (slot.begin + 1) .. (slot.begin + slot.count)

BranchScanInvariant(c) ==
    LET n == Len(c.input)
        handed == {m \in 1 .. Len(c.scan) : c.scan[m].count > 0}
    IN  /\ \A j \in 1 .. n : Len(c.input[j].key) >= c.cursor
        /\ \A j \in (c.begin0 + 1) .. n : Len(c.input[j].key) > c.cursor
        /\ \A j \in 1 .. n : Len(c.input[j].key) = c.cursor => j = 1
        /\ c.begin0 = (IF Len(c.input[1].key) = c.cursor THEN 1 ELSE 0)
        /\ \A m \in 1 .. Len(c.scan) :
               /\ c.scan[m].i = m - 1
               /\ c.scan[m].begin = (IF m = 1 THEN c.begin0
                                     ELSE c.scan[m - 1].begin + c.scan[m - 1].count)
               /\ \A j \in Run(c.scan[m]) : c.input[j].key[c.cursor + 1] = c.scan[m].i
        /\ \A j \in (c.begin0 + 1) .. n :
               Cardinality({m \in 1 .. Len(c.scan) : j \in Run(c.scan[m])}) = 1
        /\ c.endBegin = n
        /\ Len(c.children) = Cardinality(handed)
        /\ \A m \in handed :
               LET child == c.children[Cardinality({h \in handed : h <= m})]
               IN  /\ child.cursor = c.cursor + 1
                   /\ child.input = SubSeq(c.input, c.scan[m].begin + 1,
                                           c.scan[m].begin + c.scan[m].count)

\* C9: in every branch case of build_trie reached from trie_root, the entries
\* from begin on have a nibble at cursor, only the first entry may end at
\* cursor, and the scan hands each of them to exactly one child, in one run
\* per nibble, ending with begin at the input's length; no read is out of bounds.
C9_BranchScan ==
    roots.done =>
        /\ ~roots.a.panic
        /\ \A c \in BranchCalls(roots.a) : BranchScanInvariant(c)

\* A branch below the root whose first key ends at the cursor and whose scan
\* handed two runs to children.
C9_Witness ==
    /\ roots.done
    /\ \E c \in BranchCalls(roots.a) :
           /\ c.cursor > 0
           /\ c.begin0 = 1
           /\ Len(c.children) = 2
           /\ BranchScanInvariant(c)

\* ---- C10 (checked under SpecTrie)
BranchIsSeventeenSlots(c) ==
    LET first == c.input[1]
        handed == {m \in 1 .. Len(c.scan) : c.scan[m].count > 0}
    IN  /\ Len(c.out) = 18
        /\ c.out[1] = begin_branch
        /\ \A i \in 0 .. 15 :
               LET slot == c.out[i + 2]
                   mine == {j \in (c.begin0 + 1) .. Len(c.input) :
                               c.input[j].key[c.cursor + 1] = i}
               IN  IF mine = {} THEN slot = append_empty_data
                   ELSE /\ slot.op = "substream"
                        /\ i + 1 \in handed
                        /\ slot.sub = c.children[Cardinality({h \in handed : h <= i + 1})].out
        /\ c.out[18] = (IF Len(first.key) = c.cursor THEN append_value(first.value)
                        ELSE append_empty_data)

\* C10: every branch build_trie emits is begin_branch, then 16 child slots, one
\* per nibble in increasing order, each append_empty_data or one substream, then
\* one value slot: the first entry's value when its key ends at cursor, else
\* append_empty_data; also when the scan breaks early.
C10_SeventeenSlots ==
    roots.done => \A c \in BranchCalls(roots.a) : BranchIsSeventeenSlots(c)

\* A branch whose scan broke before slot 15 and whose value slot holds a value.
C10_Witness ==
    /\ roots.done
    /\ \E c \in BranchCalls(roots.a) :
           /\ Len(c.scan) < 16
           /\ c.out[18].op = "value"
           /\ BranchIsSeventeenSlots(c)

\* ---- C11 (checked under SpecTrie)
\* The nesting depth of the build_trie calls made from c through the trampoline.
RECURSIVE Depth(_)
Depth(c) ==
    IF c.children = <<>> THEN 0
    ELSE LET below == {Depth(c.children[i]) : i \in 1 .. Len(c.children)}
         IN  1 + (CHOOSE d \in below : \A e \in below : e <= d)

\* The greatest key length, in nibbles, of an input (0 for the empty input).
MaxKeyNibbles(input) ==
    LET lens == {Len(input[j].key) : j \in 1 .. Len(input)} \cup {0}
    IN  CHOOSE d \in lens : \A e \in lens : e <= d

RecursionDescends(c) ==
    \A i \in 1 .. Len(c.children) :
        LET child == c.children[i]
        IN  /\ child.cursor > c.cursor
            /\ Len(child.input) > 0
            /\ \A j \in 1 .. Len(child.input) : Len(child.input[j].key) >= child.cursor

\* C11: every call build_trie makes through build_trie_trampoline gets a cursor
\* strictly greater than its caller's and a non-empty input whose keys all have
\* at least that many nibbles, so the build ends without an out-of-bounds read
\* and the nesting depth of the calls is at most the greatest key length in nibbles.
C11_DepthBounded ==
    roots.done =>
        /\ ~roots.a.panic
        /\ \A c \in CallsBelow(roots.a.call) : RecursionDescends(c)
        /\ Depth(roots.a.call) <= MaxKeyNibbles(roots.a.call.input)

\* A build nested as deep as its longest key has nibbles, through two levels
\* of calls at least.
C11_Witness ==
    /\ roots.done
    /\ Depth(roots.a.call) >= 2
    /\ Depth(roots.a.call) = MaxKeyNibbles(roots.a.call.input)
    /\ \A c \in CallsBelow(roots.a.call) : RecursionDescends(c)

\* ---- C12 (checked under SpecTrie)
NoValue == [found |-> FALSE, value |-> <<>>]

SomeValue(v) == [found |-> TRUE, value |-> v]

\* Walking a node (the operations of one build_trie call's stream) along the
\* nibbles of key: a leaf holds the key's rest, an extension a prefix of it before
\* its child, a branch the child of the next nibble, or its value at the key's end.
RECURSIVE Walk(_, _)
Walk(node, key) ==
    IF node = <<>> THEN NoValue
    ELSE IF node[1].op = "leaf"
    THEN IF node[1].path = key THEN SomeValue(node[1].value) ELSE NoValue
    ELSE IF node[1].op = "extension"
    THEN LET n == Len(node[1].path)
         IN  IF /\ Len(node) = 2
                /\ node[2].op = "substream"
                /\ n <= Len(key)
                /\ SubSeq(key, 1, n) = node[1].path
             THEN Walk(node[2].sub, SubSeq(key, n + 1, Len(key)))
             ELSE NoValue
    ELSE IF node[1].op = "branch" /\ Len(node) = 18
    THEN IF key = <<>>
         THEN IF node[18].op = "value" THEN SomeValue(node[18].value) ELSE NoValue
         ELSE IF node[key[1] + 2].op = "substream"
              THEN Walk(node[key[1] + 2].sub, Tail(key))
              ELSE NoValue
    ELSE NoValue

\* Every (path, value) a node holds, the path counted from the root: prefix is
\* the nibbles walked to reach the node.
RECURSIVE Stored(_, _)
Stored(node, prefix) ==
    IF node = <<>> THEN {}
    ELSE IF node[1].op = "leaf" THEN {<<prefix \o node[1].path, node[1].value>>}
    ELSE IF node[1].op = "extension"
    THEN UNION {Stored(node[m].sub, prefix \o node[1].path) :
                   m \in {l \in 2 .. Len(node) : node[l].op = "substream"}}
    ELSE IF node[1].op = "branch"
    THEN UNION {Stored(node[m].sub, Append(prefix, m - 2)) :
                   m \in {l \in 2 .. Len(node) : node[l].op = "substream"}}
             \cup {<<prefix, node[m].value>> :
                      m \in {l \in 2 .. Len(node) : node[l].op = "value"}}
    ELSE {}

\* How many values a node holds, each place counted.
RECURSIVE SumValues(_, _)
RECURSIVE ValueCount(_)
SumValues(node, m) ==
    IF m > Len(node) THEN 0
    ELSE (IF node[m].op \in {"leaf", "value"} THEN 1
          ELSE IF node[m].op = "substream" THEN ValueCount(node[m].sub)
          ELSE 0) + SumValues(node, m + 1)

ValueCount(node) == SumValues(node, 1)

\* The paths walked: every prefix of the nibbles of every key of TrieKeys.
WalkPaths ==
    UNION {{SubSeq(key_nibbles(k), 1, n) : n \in 0 .. Len(key_nibbles(k))} : k \in TrieKeys}

\* The mapping of the input, its keys in nibbles.
Mapping(input) == {<<key_nibbles(input[j].key), input[j].value>> : j \in 1 .. Len(input)}

ExtensionLeadsToBranch(c) ==
    c.kind = "extension" =>
        /\ Len(c.children) = 1
        /\ c.children[1].kind = "branch"
        /\ Len(c.out) = 2
        /\ c.out[2] = append_substream(c.children[1].out)
        /\ c.out[2].sub[1] = begin_branch

NodesRepresent(input, r) ==
    LET node == r.call.out
        want == Mapping(input)
    IN  /\ ~r.panic
        /\ \A path \in WalkPaths :
               Walk(node, path) = (IF \E w \in want : w[1] = path
                                   THEN SomeValue((CHOOSE w \in want : w[1] = path)[2])
                                   ELSE NoValue)
        /\ Stored(node, <<>>) = want
        /\ ValueCount(node) = Len(input)
        /\ \A c \in CallsBelow(r.call) : ExtensionLeadsToBranch(c)

\* C12: for an input with distinct keys, walking the nodes build_trie emitted
\* along the nibbles of a key reaches a value exactly when the key is in the
\* input, and then the key's value; the nodes hold the input's pairs and no
\* other, each in one place; and the child of every extension is a branch.
C12_NodesRepresentMapping ==
    roots.done => NodesRepresent(pairsA, roots.a)

\* Three keys built into an extension, a branch holding a value and a leaf.
C12_Witness ==
    /\ roots.done
    /\ Len(pairsA) = 3
    /\ \E c \in CallsBelow(roots.a.call) : c.kind = "extension"
    /\ \E c \in BranchCalls(roots.a) : c.begin0 = 1 /\ Len(c.children) > 0
    /\ NodesRepresent(pairsA, roots.a)

\* ---- C13 (checked under SpecRange)
InRange(s) == s \in 0 .. (N - 1) /\ (is_zero(s) \/ check_validity(s))

\* C13: starting from Secrets made by zero() or a successful import_key, after
\* any sequence of add, sub, mul, neg, dec and pow calls among them, failed
\* calls included, every Secret holds a scalar in [0, n): it is zero or passes
\* check_validity.
C13_RangeClosed == \A t \in Names : InRange(secrets[t])

\* A failed add of n - 1 to a non-zero Secret (the sum is zero, which the curve
\* library rejects), after which both Secrets are in range.
C13_Witness ==
    /\ last.op = "add"
    /\ last.ret = "err"
    /\ ~is_zero(last.pre)
    /\ last.arg = MINUS_ONE_KEY
    /\ \A t \in Names : InRange(secrets[t])

====
